---- MODULE Spec2Model ----
(***************************************************************************)
(* Model of youtube_indexer.py: a Torznab front end (TorznabHandler.do_GET) *)
(* served by a single-threaded HTTPServer, with the yt-dlp search adapter   *)
(* (search_youtube) and the results encoder (format_torznab_xml).           *)
(*                                                                         *)
(* Python values that come from yt-dlp are untyped, so they are carried as  *)
(* tagged records (PyStr, PyInt, PyNone).  Query parameters are strings.    *)
(* The display-only entry fields (title, channel, view_count, upload_date,  *)
(* description) never change control flow nor any field modelled here and   *)
(* are left out of the entry records.  Behaviours are those in which the    *)
(* operator does not interrupt the process.                                 *)
(***************************************************************************)
EXTENDS Integers, Sequences, FiniteSets, TLC

VARIABLES
    HAS_YTDLP,      \* module flag set by the import at lines 26-30
    serverState,    \* "init" | "serving" | "exited": position of main()
    status,         \* per client connection: "idle" | "pending" | "handling"
    backlog,        \* listen queue of the HTTPServer socket (FIFO of connections)
    pc,             \* position of the single handler: "idle" | "extract_info" | "responded" | "faulted"
    conn,           \* connection the handler is working on (0 when idle)
    request,        \* [path, query] of the request being handled (urlparse result)
    searchCalls,    \* number of search_youtube() invocations made for this request
    outcome,        \* what ydl.extract_info did for this request
    fault,          \* exception that escaped do_GET ("" when none)
    resp            \* the response written to the socket for this request

vars == <<HAS_YTDLP, serverState, status, backlog, pc, conn, request,
          searchCalls, outcome, fault, resp>>

(***************************************************************************)
(* Bounds of the model.                                                    *)
(***************************************************************************)
NumConns == 2
MaxEntries == 1

Conns == 1..NumConns

(***************************************************************************)
(* Configuration (module constant CONFIG).                                  *)
(***************************************************************************)
CONFIG == [host |-> "0.0.0.0", port |-> 9117, api_key |-> "youtubeindexer",
           indexer_name |-> "YouTube"]

(***************************************************************************)
(* Python values from the provider.                                         *)
(***************************************************************************)
PyNone == [type |-> "NoneType"]
PyStr(s) == [type |-> "str", v |-> s]
PyInt(n) == [type |-> "int", v |-> n]

\* dict.get(k, default)
Get(d, k, default) == IF k \in DOMAIN d THEN d[k] ELSE default

\* Python truthiness of a provider value
Truthy(x) ==
    CASE x.type = "NoneType" -> FALSE
      [] x.type = "str" -> x.v # ""
      [] x.type = "int" -> x.v # 0
      [] OTHER -> TRUE

\* str(x) as used by an f-string
Str(x) ==
    CASE x.type = "NoneType" -> "None"
      [] x.type = "str" -> x.v
      [] OTHER -> "?"

StartsWith(s, p) == Len(s) >= Len(p) /\ SubSeq(s, 1, Len(p)) = p

(***************************************************************************)
(* Inputs: request targets and provider results.                            *)
(***************************************************************************)
Absent == "<absent>"

Paths == {"/api", "/download/x"}

RawAssignments ==
    [apikey : {Absent, "wrong", CONFIG.api_key},
     t      : {Absent, "caps", "search", "tvsearch", "download", "bogus"},
     q      : {Absent, "", "test show"},
     se     : {<<Absent, Absent>>, <<"1", "2">>},
     link   : {Absent, "https://youtu.be/xyz"},
     id     : {Absent, "https://youtu.be/idv"}]

QueryOf(a) ==
    LET full == [k \in {"apikey", "t", "q", "season", "ep", "link", "id"} |->
                    CASE k = "season" -> a.se[1]
                      [] k = "ep" -> a.se[2]
                      [] OTHER -> a[k]]
    IN [k \in {k2 \in DOMAIN full : full[k2] # Absent} |-> full[k]]

Requests == {[path |-> p, query |-> QueryOf(a)] : p \in Paths, a \in RawAssignments}

NoRequest == [path |-> "", query |-> [k \in {} |-> ""]]

PyAbsent == [type |-> "absent"]

EntryAssignments ==
    [id       : {PyAbsent, PyNone, PyStr("abc123")},
     url      : {PyAbsent, PyStr("https://www.youtube.com/watch?v=abc123&t=1")},
     duration : {PyAbsent, PyNone, PyInt(0), PyInt(120)}]

EntryOf(a) == [k \in {k2 \in {"id", "url", "duration"} : a[k2] # PyAbsent} |-> a[k]]

\* what result['entries'] may hold: a dict, or None for an unavailable video
Entries == {EntryOf(a) : a \in EntryAssignments} \cup {PyNone}

RECURSIVE SeqsUpTo(_, _)
SeqsUpTo(S, n) ==
    IF n = 0 THEN {<<>>}
    ELSE LET shorter == SeqsUpTo(S, n - 1)
         IN shorter \cup {Append(s, e) : s \in {t \in shorter : Len(t) = n - 1}, e \in S}

\* what ydl.extract_info can do: raise, return a falsy result / one without
\* 'entries', or return a list of entries
Outcomes ==
    {[kind |-> "raise", entries |-> <<>>], [kind |-> "noentries", entries |-> <<>>]}
    \cup {[kind |-> "entries", entries |-> es] : es \in SeqsUpTo(Entries, MaxEntries)}

NoOutcome == [kind |-> "notcalled", entries |-> <<>>]

(***************************************************************************)
(* Responses and documents.                                                *)
(***************************************************************************)
NoResponse ==
    [status |-> 0, kind |-> "none", code |-> 0, description |-> "",
     location |-> "", items |-> <<>>]

\* TorznabHandler._send_xml: status 200, body is the document
send_xml(doc) ==
    [status |-> 200, kind |-> doc.root, code |-> 0, description |-> "",
     location |-> "", items |-> doc.items]

\* variant: errors go out with a transport-level status
send_error_400(code, message) ==
    [status |-> 400, kind |-> "error", code |-> code, description |-> message,
     location |-> "", items |-> <<>>]

\* TorznabHandler._send_error: status 200, body is <error code= description=/>
send_error(code, message) ==
    [status |-> 200, kind |-> "error", code |-> code, description |-> message,
     location |-> "", items |-> <<>>]

\* send_response(302) + Location header
send_redirect(link) ==
    [status |-> 302, kind |-> "redirect", code |-> 0, description |-> "",
     location |-> link, items |-> <<>>]

get_capabilities_xml == [root |-> "caps", items |-> <<>>]

(***************************************************************************)
(* Provider adapter: search_youtube after extract_info came back.           *)
(***************************************************************************)
\* `if entry:` -- None and the empty dict are skipped
EntryTruthy(entry) == ~("type" \in DOMAIN entry) /\ DOMAIN entry # {}

WatchUrl(entry) ==
    PyStr("https://www.youtube.com/watch?v=" \o Str(Get(entry, "id", PyStr(""))))

NormalizeEntry(entry) ==
    [id       |-> Get(entry, "id", PyStr("")),
     url      |-> IF Truthy(Get(entry, "url", PyNone)) THEN entry["url"] ELSE WatchUrl(entry),
     duration |-> Get(entry, "duration", PyInt(0))]

RECURSIVE CollectVideos(_)
CollectVideos(entries) ==
    IF entries = <<>> THEN <<>>
    ELSE IF EntryTruthy(Head(entries))
         THEN <<NormalizeEntry(Head(entries))>> \o CollectVideos(Tail(entries))
         ELSE CollectVideos(Tail(entries))

\* variant: a provider error is surfaced as a placeholder video
search_youtube_ErrorItem(has_ytdlp, out) ==
    IF ~has_ytdlp THEN <<>>
    ELSE IF out.kind = "raise" THEN <<NormalizeEntry([k \in {} |-> PyNone])>>
    ELSE IF out.kind = "entries" THEN CollectVideos(out.entries)
    ELSE <<>>

\* the list search_youtube returns, given what the provider did
search_youtube(has_ytdlp, out) ==
    IF ~has_ytdlp THEN <<>>
    ELSE IF out.kind = "raise" THEN <<>>
    ELSE IF out.kind = "entries" THEN CollectVideos(out.entries)
    ELSE <<>>

(***************************************************************************)
(* Encoder: generate_guid and format_torznab_xml.                           *)
(***************************************************************************)
generate_guid(video_id) == <<"md5", video_id>>

\* int(duration / 60 * 5 * 1024 * 1024).  The float product equals the exact
\* quotient floor(duration * 5 * 1024 * 1024 / 60) for every integer duration
\* up to 2*10^6 seconds; whole minutes and the remainder are multiplied
\* separately to stay within TLC's 32-bit integers.
EstimatedSize(duration) ==
    (duration \div 60) * (5 * 1024 * 1024)
        + ((duration % 60) * (5 * 1024 * 1024)) \div 60

\* the exception rendering one video raises ("" when none): None.encode() in
\* generate_guid, then None / 60
ItemFault(video) ==
    IF video["id"].type # "str" THEN "AttributeError"
    ELSE IF Get(video, "duration", PyInt(600)).type # "int" THEN "TypeError"
    ELSE ""

\* variant: the enclosure url is rebuilt from the id instead of reusing the link
RenderItem_EnclosureFromId(video) ==
    LET estimated_size == EstimatedSize(Get(video, "duration", PyInt(600)).v)
    IN [guid      |-> generate_guid(video["id"].v),
        link      |-> video["url"].v,
        size      |-> estimated_size,
        enclosure |-> [url |-> "https://www.youtube.com/watch?v=" \o video["id"].v,
                       length |-> estimated_size]]

RenderItem(video) ==
    LET estimated_size == EstimatedSize(Get(video, "duration", PyInt(600)).v)
    IN [guid      |-> generate_guid(video["id"].v),
        link      |-> video["url"].v,
        size      |-> estimated_size,
        enclosure |-> [url |-> video["url"].v, length |-> estimated_size]]

format_torznab_xml(videos) ==
    LET bad == {i \in 1..Len(videos) : ItemFault(videos[i]) # ""}
    IN IF bad # {}
       THEN [fault |-> ItemFault(videos[CHOOSE i \in bad : \A j \in bad : i <= j]),
             root  |-> "rss", items |-> <<>>]
       ELSE [fault |-> "", root |-> "rss",
             items |-> [i \in 1..Len(videos) |-> RenderItem(videos[i])]]

(***************************************************************************)
(* Dispatcher: the pieces of TorznabHandler.do_GET.                         *)
(***************************************************************************)
\* urllib.parse.parse_qs with keep_blank_values=False, first value of each key
parse_qs(query) == [k \in {k2 \in DOMAIN query : query[k2] # ""} |-> query[k]]

\* variant: the key is compared only when the request carries one
Authenticated_KeyOptional(params) ==
    ~("apikey" \in DOMAIN params /\ params["apikey"] # CONFIG.api_key)

Authenticated(params) ==
    ~(CONFIG.api_key # "" /\ Get(params, "apikey", "") # CONFIG.api_key)

\* the if / elif chain on `action`
Route(action, path) ==
    IF action = "caps" THEN "caps"
    ELSE IF action = "search" \/ action = "tvsearch" THEN "search"
    ELSE IF action = "download" \/ StartsWith(path, "/download") THEN "download"
    ELSE "unknown"

\* variant: season and episode are appended as SxxEyy
BuildQuery_WithEpisode(params) ==
    LET q == Get(params, "q", "")
        season == Get(params, "season", "")
        ep == Get(params, "ep", "")
    IN IF season # "" /\ ep # "" THEN q \o " S" \o season \o "E" \o ep ELSE q

\* query text: `q` alone; season and ep are read and ignored
BuildQuery(params) ==
    LET q == Get(params, "q", "")
        season == Get(params, "season", "")
        ep == Get(params, "ep", "")
    IN IF q # "" THEN q ELSE ""

\* variant: no fallback to `id`
DownloadLink_NoFallback(params) == Get(params, "link", "")

\* params.get('link', params.get('id', ['']))[0]
DownloadLink(params) == Get(params, "link", Get(params, "id", ""))

DownloadResponse(params) ==
    IF DownloadLink(params) # "" THEN send_redirect(DownloadLink(params))
    ELSE send_error(200, "Missing download link")

\* variant: the description does not cite the action
UnknownResponse_NoName(action) == send_error(201, "Unknown action")

UnknownResponse(action) == send_error(201, "Unknown action: " \o action)

\* do_GET up to the point where it either answers or calls the provider:
\* [pc, resp, searchCalls] with pc = "extract_info" when yt-dlp is entered
Dispatch(req, has_ytdlp) ==
    LET params == parse_qs(req.query)
        action == Get(params, "t", "")
        route  == Route(action, req.path)
        query  == BuildQuery(params)
        answer(r, n) == [pc |-> "responded", resp |-> r, searchCalls |-> n]
    IN IF ~Authenticated(params) THEN answer(send_error(100, "Invalid API Key"), 0)
       ELSE IF route = "caps" THEN answer(send_xml(get_capabilities_xml), 0)
       ELSE IF route = "search"
            THEN IF query = "" THEN answer(send_xml(format_torznab_xml(<<>>)), 0)
                 ELSE IF has_ytdlp
                      THEN [pc |-> "extract_info", resp |-> NoResponse, searchCalls |-> 1]
                      ELSE answer(send_xml(format_torznab_xml(
                                      search_youtube(has_ytdlp, NoOutcome))), 1)
       ELSE IF route = "download" THEN answer(DownloadResponse(params), 0)
       ELSE answer(UnknownResponse(action), 0)

\* do_GET from the return of search_youtube to its end: [pc, resp, fault]
AfterSearch(videos) ==
    LET doc == format_torznab_xml(videos)
    IN IF doc.fault # ""
       THEN [pc |-> "faulted", resp |-> NoResponse, fault |-> doc.fault]
       ELSE [pc |-> "responded", resp |-> send_xml(doc), fault |-> ""]

(***************************************************************************)
(* The state machine.                                                      *)
(***************************************************************************)
Init ==
    /\ HAS_YTDLP \in BOOLEAN
    /\ serverState = "init"
    /\ status = [c \in Conns |-> "idle"]
    /\ backlog = <<>>
    /\ pc = "idle"
    /\ conn = 0
    /\ request = NoRequest
    /\ searchCalls = 0
    /\ outcome = NoOutcome
    /\ fault = ""
    /\ resp = NoResponse

\* main(): without yt-dlp it returns before the server is created
main ==
    /\ serverState = "init"
    /\ serverState' = IF HAS_YTDLP THEN "serving" ELSE "exited"
    /\ UNCHANGED <<HAS_YTDLP, status, backlog, pc, conn, request, searchCalls,
                   outcome, fault, resp>>

\* a client connects to the listening socket
Connect(c) ==
    /\ serverState = "serving"
    /\ status[c] = "idle"
    /\ status' = [status EXCEPT ![c] = "pending"]
    /\ backlog' = Append(backlog, c)
    /\ UNCHANGED <<HAS_YTDLP, serverState, pc, conn, request, searchCalls,
                   outcome, fault, resp>>

\* serve_forever accepts the next connection and runs do_GET on what it sends,
\* up to the response or to the blocking provider call
do_GET ==
    /\ serverState = "serving"
    /\ pc = "idle"
    /\ backlog # <<>>
    /\ \E req \in Requests :
          LET d == Dispatch(req, HAS_YTDLP)
          IN /\ request' = req
             /\ pc' = d.pc
             /\ resp' = d.resp
             /\ searchCalls' = d.searchCalls
    /\ conn' = Head(backlog)
    /\ backlog' = Tail(backlog)
    /\ status' = [status EXCEPT ![Head(backlog)] = "handling"]
    /\ outcome' = NoOutcome
    /\ fault' = ""
    /\ UNCHANGED <<HAS_YTDLP, serverState>>

\* ydl.extract_info returns or raises; search_youtube and do_GET run to the end
ProviderReturn ==
    /\ pc = "extract_info"
    /\ \E out \in Outcomes :
          LET a == AfterSearch(search_youtube(HAS_YTDLP, out))
          IN /\ outcome' = out
             /\ pc' = a.pc
             /\ resp' = a.resp
             /\ fault' = a.fault
    /\ UNCHANGED <<HAS_YTDLP, serverState, status, backlog, conn, request, searchCalls>>

\* the handler is over: socketserver closes the connection (after handle_error
\* when do_GET raised) and serve_forever goes back to accepting
Finish ==
    /\ pc \in {"responded", "faulted"}
    /\ pc' = "idle"
    /\ status' = [status EXCEPT ![conn] = "idle"]
    /\ conn' = 0
    /\ request' = NoRequest
    /\ searchCalls' = 0
    /\ outcome' = NoOutcome
    /\ fault' = ""
    /\ resp' = NoResponse
    /\ UNCHANGED <<HAS_YTDLP, serverState, backlog>>

Next ==
    \/ main
    \/ \E c \in Conns : Connect(c)
    \/ do_GET
    \/ ProviderReturn
    \/ Finish

Spec == Init /\ [][Next]_vars

\* The server loop and the handler's own code always make progress; nothing
\* bounds the provider call (ydl_opts sets no timeout) and clients are free.
FairSpec == Spec /\ WF_vars(main) /\ WF_vars(do_GET) /\ WF_vars(Finish)

(***************************************************************************)
(* Vocabulary of the properties: the request as the client sent it and the  *)
(* provider's entries as yt-dlp delivered them.                             *)
(***************************************************************************)
\* value of a query parameter as sent ("" when missing or blank)
Sent(k) == Get(request.query, k, "")

InRequest == pc # "idle"
Handled == pc \in {"responded", "faulted"}
KeyMatches == Sent("apikey") = CONFIG.api_key
IsSearchAction == Sent("t") \in {"search", "tvsearch"}
OnDownloadPath == StartsWith(request.path, "/download")
Target == IF Sent("link") # "" THEN Sent("link") ELSE Sent("id")
ProviderUntouched == searchCalls = 0 /\ outcome = NoOutcome /\ pc # "extract_info"

Contains(str, sub) ==
    \/ sub = ""
    \/ \E i \in 1..(Len(str) - Len(sub) + 1) : SubSeq(str, i, i + Len(sub) - 1) = sub

\* the provider entries that are turned into items, in order
KeptEntries == SelectSeq(outcome.entries, LAMBDA e : e # PyNone /\ DOMAIN e # {})

\* floor((d / 60) * 5 * 1024 * 1024) for a whole number of seconds d
\* (5 * 1024 * 1024 / 60 = 262144 / 3)
FloorBytes(d) == (d * 262144) \div 3

GivenDuration(e) == IF "duration" \in DOMAIN e THEN e["duration"].v ELSE 0
GivenId(e) == IF "id" \in DOMAIN e THEN e["id"].v ELSE ""

\* the answer of the download branch: a redirect to the target, or an error
DownloadAnswer ==
    /\ pc = "responded"
    /\ IF Target # ""
       THEN resp.status = 302 /\ resp.kind = "redirect" /\ resp.location = Target
       ELSE resp.status = 200 /\ resp.kind = "error"

\* the requests that reach the download branch of the if / elif chain
HandledAsDownload ==
    \/ Sent("t") = "download"
    \/ OnDownloadPath /\ Sent("t") \notin {"caps", "search", "tvsearch"}

\* the answer of the unknown-action branch
UnknownAnswer ==
    /\ pc = "responded"
    /\ resp.status = 200
    /\ resp.kind = "error"
    /\ Contains(resp.description, Sent("t"))
    /\ ProviderUntouched

(***************************************************************************)
(* C1: with a shared key configured, a request whose apikey is missing or   *)
(* wrong gets the error document code 100 'Invalid API Key' and nothing     *)
(* else (no provider call, no other document, no redirect), whatever its    *)
(* path and other parameters; a request with the right key and t=caps gets  *)
(* the capabilities document.                                               *)
(***************************************************************************)
C1_AuthGate ==
    (InRequest /\ CONFIG.api_key # "") =>
        /\ ~KeyMatches =>
              /\ pc = "responded"
              /\ resp = [status |-> 200, kind |-> "error", code |-> 100,
                         description |-> "Invalid API Key", location |-> "",
                         items |-> <<>>]
              /\ ProviderUntouched
        /\ (KeyMatches /\ Sent("t") = "caps") =>
              /\ pc = "responded"
              /\ resp.kind = "caps"
              /\ resp.status = 200

C1_Witness ==
    /\ pc = "responded"
    /\ Sent("apikey") = ""
    /\ Sent("t") = "search"
    /\ Sent("q") # ""
    /\ Sent("link") # ""
    /\ OnDownloadPath
    /\ resp.code = 100

(***************************************************************************)
(* C2: every rendered item has size floor((d' / 60) * 5 * 1024 * 1024),     *)
(* with d' = 600 when the provider's duration d is zero or absent and       *)
(* d' = d otherwise.                                                        *)
(***************************************************************************)
C2_SizeUsesDefaultDuration ==
    (pc = "responded" /\ resp.kind = "rss" /\ outcome.kind = "entries") =>
        /\ Len(resp.items) = Len(KeptEntries)
        /\ \A i \in 1..Len(resp.items) :
              LET d == GivenDuration(KeptEntries[i])
                  dd == IF d = 0 THEN 600 ELSE d
              IN /\ resp.items[i].size = FloorBytes(dd)
                 /\ resp.items[i].size > 0
                 /\ resp.items[i].enclosure.length = resp.items[i].size

(***************************************************************************)
(* C3 as stated: an authenticated request with t=download, or with a path   *)
(* beginning with /download whatever its t, is answered by a 302 to the     *)
(* link (or id) value when there is one and by an error document otherwise. *)
(***************************************************************************)
C3_DownloadWhateverT ==
    (InRequest /\ KeyMatches /\ (Sent("t") = "download" \/ OnDownloadPath)) =>
        DownloadAnswer

(***************************************************************************)
(* C3 amended: an authenticated request with t=download, or with a path     *)
(* beginning with /download and a t other than caps, search and tvsearch,   *)
(* is answered by a 302 to the link (or, without link, the id) value when   *)
(* there is one and by an error document otherwise.                         *)
(***************************************************************************)
C3_DownloadUnlessOtherAction ==
    (InRequest /\ KeyMatches /\ HandledAsDownload) => DownloadAnswer

C3_Witness ==
    /\ pc = "responded"
    /\ KeyMatches
    /\ OnDownloadPath
    /\ Sent("t") = "bogus"
    /\ Sent("link") = ""
    /\ Sent("id") # ""
    /\ resp.status = 302
    /\ resp.location = Sent("id")

(***************************************************************************)
(* C4: an authenticated search/tvsearch whose q is empty (season and ep     *)
(* ignored) gets a zero-item results document and search_youtube is never   *)
(* invoked during the request; the provider is invoked only for an          *)
(* authenticated search/tvsearch with a non-empty q.                        *)
(***************************************************************************)
C4_EmptyQueryShortCircuit ==
    /\ (InRequest /\ KeyMatches /\ IsSearchAction /\ Sent("q") = "") =>
          /\ pc = "responded"
          /\ resp.status = 200
          /\ resp.kind = "rss"
          /\ resp.items = <<>>
          /\ ProviderUntouched
    /\ ~ProviderUntouched => (KeyMatches /\ IsSearchAction /\ Sent("q") # "")

C4_Witness ==
    /\ pc = "responded"
    /\ KeyMatches
    /\ Sent("t") = "tvsearch"
    /\ "q" \in DOMAIN request.query
    /\ Sent("q") = ""
    /\ Sent("season") # ""
    /\ Sent("ep") # ""
    /\ resp.kind = "rss"
    /\ searchCalls = 0

C6_FaultBecomesErrorResponse ==
    Handled =>
        /\ resp.status # 0
        /\ resp.kind \in {"caps", "rss", "error", "redirect"}
        /\ fault # "" => resp.kind = "error"

(***************************************************************************)
(* C7: while a provider call is outstanding, any other request that is      *)
(* waiting still eventually receives its response.                          *)
(***************************************************************************)
C7_SlowSearchDoesNotBlockOthers ==
    \A c \in Conns :
        (pc = "extract_info" /\ status[c] = "pending")
            ~> (conn = c /\ pc = "responded")

C9_UnknownActionAnyPath ==
    (InRequest /\ KeyMatches
       /\ Sent("t") \notin {"caps", "search", "tvsearch", "download"}) =>
        UnknownAnswer

(***************************************************************************)
(* C9 amended: an authenticated request whose t is none of caps, search,    *)
(* tvsearch, download (or is absent) and whose path does not begin with     *)
(* /download gets an error document citing t, and no capabilities,          *)
(* results, provider call or redirect.                                      *)
(***************************************************************************)
C9_UnknownActionOffDownloadPath ==
    (InRequest /\ KeyMatches /\ ~OnDownloadPath
       /\ Sent("t") \notin {"caps", "search", "tvsearch", "download"}) =>
        (UnknownAnswer /\ resp.code = 201)

C9_Witness ==
    /\ pc = "responded"
    /\ KeyMatches
    /\ ~OnDownloadPath
    /\ Sent("t") = "bogus"
    /\ Sent("link") # ""
    /\ resp.description = "Unknown action: bogus"

(***************************************************************************)
(* C10: in every results document each item's link and enclosure url are    *)
(* the same, non-empty URL: the provider's url when it gives one, otherwise *)
(* the watch-URL template applied to the item's id.                         *)
(***************************************************************************)
C10_LinkEqualsEnclosure ==
    (pc = "responded" /\ resp.kind = "rss") =>
        /\ Len(resp.items) = Len(KeptEntries)
        /\ \A i \in 1..Len(resp.items) :
              LET e == KeptEntries[i]
                  item == resp.items[i]
              IN /\ item.link = item.enclosure.url
                 /\ item.link # ""
                 /\ item.link = IF "url" \in DOMAIN e
                                THEN e["url"].v
                                ELSE "https://www.youtube.com/watch?v=" \o GivenId(e)

C10_Witness ==
    /\ pc = "responded"
    /\ resp.kind = "rss"
    /\ Len(resp.items) = 1
    /\ "url" \in DOMAIN KeptEntries[1]
    /\ "id" \in DOMAIN KeptEntries[1]
    /\ resp.items[1].link = resp.items[1].enclosure.url

====
